---- MODULE Spec2Model ----
(***************************************************************************)
(* Model of the request-safety gate of newsletter-aggregator:              *)
(*   src/api/security.py  CSRF token store, SSRF checks, feed validation   *)
(*   src/api/server.py    the HTTP routes /api/validate and /api/generate  *)
(*   src/api/main.py      fetch_articles / scrape_article (outbound I/O)   *)
(*                                                                         *)
(* Eight specifications share the variables:                               *)
(*   Spec      calls of the token store made one after the other           *)
(*   SpecConc  calls of the token store interleaved by request threads     *)
(*   SpecUrl   check_url_safe against a resolver that answers              *)
(*   SpecDns   check_url_safe against a resolver that may not answer       *)
(*   SpecFetch check_url_safe, then the fetch of the URL it allowed        *)
(*   SpecBatch validate_feed_urls                                          *)
(*   SpecGen   the HTTP routes of server.py                                *)
(*   SpecRetry the HTTP routes of server.py with one token issued          *)
(***************************************************************************)
EXTENDS Integers, Sequences, FiniteSets, TLC

\* ------------------------------------------------------------------ bounds
\* How many tokens issue_csrf_token hands out in one run.
MaxTokens == 2
\* How many times the clock advances in one run.
MaxTicks == 2
\* How many consume calls per issued token are recorded in one run.
MaxConsumes == 2
\* How many addresses one resolver answer lists.
MaxAddrs == 2
\* How many feed URLs a request lists (besides the over-long list).
MaxFeedsTried == 2
\* How many entries a fetched feed holds.
MaxEntries == 1
\* How many request threads run at once.
NThreads == 2

\* --------------------------------------------------------------- constants
\* security.py:48
TOKEN_TTL_SECONDS == 300
\* security.py:54
MAX_FEEDS == 10
\* security.py:57, in KB as the 413 handler reports it (line 312)
MAX_BODY_KB == 64

\* The clock advances by one second or by a whole TTL: with both, a token is
\* seen one second before, exactly at, and one second after its expiry.
TickSteps == {1, TOKEN_TTL_SECONDS}

\* Token values.  secrets.token_hex(32) draws 256 random bits: a value is never
\* drawn twice, so the k-th token issued is the value k.  EmptyToken is the
\* empty string (a missing header), ForgedToken a value that was never issued.
EmptyToken == 0
ForgedToken == 0 - 1
TokenValues == 1..MaxTokens

VARIABLES
    token_store,  \* security.py:93  _token_store: token -> expires_at
    now,          \* time.time(), whole seconds
    ticks,        \* how often the clock advanced
    nextTok,      \* how many tokens secrets.token_hex has produced
    issuedAt,     \* history: token -> the time issue_csrf_token stored it
    hist,         \* history: token -> the completed consume calls on it
    last          \* the last completed call of the store and what it returned

tokVars == <<token_store, now, ticks, nextTok, issuedAt, hist, last>>

\* Request threads (Flask's development server runs one thread per request).
VARIABLES
    op,          \* the call a thread is running: "issue", "consume" or "none"
    pc,          \* where the thread is in it
    arg,         \* _consume_csrf_token's token argument
    nowL,        \* _purge_expired_tokens' local `now` (line 98)
    used,        \* the dict size the items() iterator of line 99 was created with
    expired,     \* _purge_expired_tokens' local `expired`, what is left to delete
    ret,         \* what the call returned or raised
    startValid   \* history: the token was stored and unexpired when the call began

thrVars == <<op, pc, arg, nowL, used, expired, ret, startValid>>

\* URL checks.
VARIABLES
    urlCall,     \* the last check_url_safe call: its URL, the resolver's answer
                 \* if the resolver was asked, and the verdict
    batchCall,   \* the last validate_feed_urls call: its argument, what the
                 \* resolver answers per URL if asked, and the result
    resolving,   \* "no", or check_url_safe(urlCall.url) is inside
                 \* socket.getaddrinfo: "answering" when the resolver will
                 \* answer the query, "silent" when it never will
    conn         \* the outbound connection the fetch of urlCall.url made,
                 \* if the URL was fetched after its check

urlVars == <<urlCall, batchCall, resolving, conn>>

\* The HTTP routes of server.py.
VARIABLES
    hpc,         \* where the request handler is: "idle", "body", "scrape",
                 \* "probe" or "done"
    http,        \* the request in hand and, once done, its response
    events,      \* what the handler did so far, in order: checks, outbound
                 \* fetches, the temporary file's creation and removal
    tmpFile      \* the temporary PDF file of the last /api/generate that
                 \* created one exists

genVars == <<hpc, http, events, tmpFile>>

\* ------------------------------------------------------------ dict helpers
EmptyStore == [k \in {} |-> 0]

\* del d[k]
DictDel(d, k) == [x \in (DOMAIN d) \ {k} |-> d[x]]

\* d[k] = v
DictSet(d, k, v) == [x \in (DOMAIN d) \cup {k} |-> IF x = k THEN v ELSE d[x]]

\* --------------------------------------------------------- the token store
\* A purge that drops a token only a whole TTL after its expiry.
ExpiredATtlAgo(st, t) == {k \in DOMAIN st : st[k] + TOKEN_TTL_SECONDS < t}

\* security.py:99  the tokens purge finds stale at time t
ExpiredAt(st, t) == {k \in DOMAIN st : st[k] < t}

\* A purge that empties the store.
purge_all_tokens(st, t) == EmptyStore

\* security.py:96-101  _purge_expired_tokens, run without interruption
purge_expired_tokens(st, t) ==
    [k \in (DOMAIN st) \ ExpiredAt(st, t) |-> st[k]]

\* An expiry that takes the TTL for milliseconds.
StoredExpiryBad(t) == t + TOKEN_TTL_SECONDS * 1000

\* security.py:118  the expiry stored for a token issued at time t
StoredExpiry(t) == t + TOKEN_TTL_SECONDS

\* An issue that also renews the expiry of every token still stored.
issue_renews_stored(st, tok, t1, t2) ==
    [k \in (DOMAIN purge_expired_tokens(st, t1)) \cup {tok} |-> StoredExpiry(t2)]

\* security.py:104-119  issue_csrf_token: purge at t1, store at t2
issue_csrf_token(st, tok, t1, t2) ==
    DictSet(purge_expired_tokens(st, t1), tok, StoredExpiry(t2))

\* A consume that reports success without deleting the token.
consume_keeps_token(st, tok, t1, t2) ==
    LET p == purge_expired_tokens(st, t1) IN
    IF tok = EmptyToken \/ tok \notin DOMAIN p
    THEN [ret |-> FALSE, store |-> p]
    ELSE IF t2 > p[tok]
         THEN [ret |-> FALSE, store |-> DictDel(p, tok)]
         ELSE [ret |-> TRUE, store |-> p]

\* A consume that already rejects at the expiry instant.
consume_rejects_at_expiry(st, tok, t1, t2) ==
    LET p == purge_expired_tokens(st, t1) IN
    IF tok = EmptyToken \/ tok \notin DOMAIN p
    THEN [ret |-> FALSE, store |-> p]
    ELSE IF t2 >= p[tok]
         THEN [ret |-> FALSE, store |-> DictDel(p, tok)]
         ELSE [ret |-> TRUE, store |-> DictDel(p, tok)]

\* security.py:122-139  _consume_csrf_token: purge at t1, compare at t2
consume_csrf_token(st, tok, t1, t2) ==
    LET p == purge_expired_tokens(st, t1) IN
    IF tok = EmptyToken \/ tok \notin DOMAIN p
    THEN [ret |-> FALSE, store |-> p]
    ELSE IF t2 > p[tok]
         THEN [ret |-> FALSE, store |-> DictDel(p, tok)]
         ELSE [ret |-> TRUE, store |-> DictDel(p, tok)]

\* ------------------------------------------------- Spec: one call at a time
NoCall == [op |-> "none", tok |-> EmptyToken, ret |-> FALSE,
           before |-> EmptyStore, t1 |-> 0, t2 |-> 0,
           resp |-> [status |-> 0, error |-> ""]]

TokInit ==
    /\ token_store = EmptyStore
    /\ now = 0
    /\ ticks = 0
    /\ nextTok = 0
    /\ issuedAt = EmptyStore
    /\ hist = EmptyStore
    /\ last = NoCall

\* The clock advancing between two calls.
Tick ==
    /\ ticks < MaxTicks
    /\ \E d \in TickSteps : now' = now + d
    /\ ticks' = ticks + 1
    /\ UNCHANGED <<token_store, nextTok, issuedAt, hist, last>>

\* The clock readings of one call: time.time() is read once by the purge (t1)
\* and once more by the caller (t2), and the clock may advance in between.
Readings == {<<0, 0>>} \cup {<<d, 1>> : d \in TickSteps}

\* GET /api/csrf-token as security.py documents it: issue_csrf_token()
Issue ==
    /\ nextTok < MaxTokens
    /\ \E r \in Readings :
        /\ ticks + r[2] <= MaxTicks
        /\ LET tok == nextTok + 1
               t1 == now
               t2 == now + r[1]
           IN /\ token_store' = issue_csrf_token(token_store, tok, t1, t2)
              /\ now' = t2
              /\ ticks' = ticks + r[2]
              /\ nextTok' = tok
              /\ issuedAt' = DictSet(issuedAt, tok, t2)
              /\ hist' = DictSet(hist, tok, <<>>)
              /\ last' = [op |-> "issue", tok |-> tok, ret |-> TRUE,
                          before |-> token_store, t1 |-> t1, t2 |-> t2,
                          resp |-> [status |-> 200, error |-> ""]]

\* The request went on to the wrapped route: the gate gave no response.
Passed == [status |-> 0, error |-> ""]

\* A gate that tells a missing header from a wrong token.
require_csrf_names_missing(tok, ok) ==
    IF ok THEN Passed
    ELSE IF tok = EmptyToken THEN [status |-> 400, error |-> "CSRF token missing."]
    ELSE [status |-> 401, error |-> "Unauthorized."]

\* security.py:162-169  require_csrf.wrapper, given the token of the header
\* and what _consume_csrf_token returned for it
require_csrf(tok, ok) ==
    IF ok THEN Passed ELSE [status |-> 401, error |-> "Unauthorized."]

\* The token values a client may present: none, a forged one, any issued one.
Presentable == {EmptyToken, ForgedToken} \cup (1..nextTok)

\* A request through require_csrf: _consume_csrf_token(tok) and the response
Consume ==
    \E tok \in Presentable, r \in Readings :
        /\ ticks + r[2] <= MaxTicks
        /\ tok \in 1..nextTok => Len(hist[tok]) < MaxConsumes
        /\ LET t1 == now
               t2 == now + r[1]
               res == consume_csrf_token(token_store, tok, t1, t2)
               \* line 133 is reached only when the token is present after the purge
               end == IF tok = EmptyToken
                         \/ tok \notin DOMAIN purge_expired_tokens(token_store, t1)
                      THEN t1 ELSE t2
           IN /\ token_store' = res.store
              /\ now' = end
              /\ ticks' = IF end = t1 THEN ticks ELSE ticks + r[2]
              /\ hist' = IF tok \in 1..nextTok
                         THEN [hist EXCEPT ![tok] =
                                 Append(@, [ret |-> res.ret, at |-> end])]
                         ELSE hist
              /\ last' = [op |-> "consume", tok |-> tok, ret |-> res.ret,
                          before |-> token_store, t1 |-> t1, t2 |-> end,
                          resp |-> require_csrf(tok, res.ret)]
              /\ UNCHANGED <<nextTok, issuedAt>>

TokTick == Tick /\ UNCHANGED <<thrVars, urlVars, genVars>>

TokIssue == Issue /\ UNCHANGED <<thrVars, urlVars, genVars>>

TokConsume == Consume /\ UNCHANGED <<thrVars, urlVars, genVars>>

TokNext == TokTick \/ TokIssue \/ TokConsume

\* --------------------------------------------- SpecConc: interleaved calls
\* No lock guards _token_store (security.py:93-139 takes none), so a thread may
\* be preempted between any two dict operations; each dict operation on its
\* own is atomic under the interpreter lock.
Threads == 1..NThreads

ThrInit ==
    /\ op = [t \in Threads |-> "none"]
    /\ pc = [t \in Threads |-> "idle"]
    /\ arg = [t \in Threads |-> EmptyToken]
    /\ nowL = [t \in Threads |-> 0]
    /\ used = [t \in Threads |-> 0]
    /\ expired = [t \in Threads |-> {}]
    /\ ret = [t \in Threads |-> "none"]
    /\ startValid = [t \in Threads |-> FALSE]

InFlightIssues == Cardinality({t \in Threads : op[t] = "issue" /\ pc[t] # "done"})

\* A call ends: it returned v or raised v.
Finish(th, v) ==
    /\ pc' = [pc EXCEPT ![th] = "done"]
    /\ ret' = [ret EXCEPT ![th] = v]

\* security.py:98-99  a call enters _purge_expired_tokens: it reads the clock
\* and creates the iterator over _token_store.items()
BeginCall(th) ==
    /\ pc[th] = "idle"
    /\ \E o \in {"issue", "consume"}, tok \in Presentable :
        /\ o = "issue" => tok = EmptyToken /\ nextTok + InFlightIssues < MaxTokens
        /\ op' = [op EXCEPT ![th] = o]
        /\ arg' = [arg EXCEPT ![th] = tok]
        /\ startValid' = [startValid EXCEPT ![th] =
               tok \in DOMAIN token_store /\ ~(now > token_store[tok])]
    /\ nowL' = [nowL EXCEPT ![th] = now]
    /\ used' = [used EXCEPT ![th] = Cardinality(DOMAIN token_store)]
    /\ pc' = [pc EXCEPT ![th] = "scan"]
    /\ ret' = [ret EXCEPT ![th] = "none"]
    /\ UNCHANGED <<expired, tokVars>>

\* security.py:99  the list comprehension runs over the iterator; a dict whose
\* size changed since the iterator was created makes it raise RuntimeError
ScanStore(th) ==
    /\ pc[th] = "scan"
    /\ IF Cardinality(DOMAIN token_store) # used[th]
       THEN /\ Finish(th, "RuntimeError")
            /\ UNCHANGED expired
       ELSE /\ expired' = [expired EXCEPT ![th] = ExpiredAt(token_store, nowL[th])]
            /\ pc' = [pc EXCEPT ![th] = "purge"]
            /\ UNCHANGED ret
    /\ nowL' = [nowL EXCEPT ![th] = 0]
    /\ used' = [used EXCEPT ![th] = 0]
    /\ UNCHANGED <<op, arg, startValid, tokVars>>

\* security.py:100-101  del _token_store[t] for one more t of `expired`
PurgeOne(th) ==
    /\ pc[th] = "purge"
    /\ expired[th] # {}
    /\ \E k \in expired[th] :
        IF k \in DOMAIN token_store
        THEN /\ token_store' = DictDel(token_store, k)
             /\ expired' = [expired EXCEPT ![th] = @ \ {k}]
             /\ UNCHANGED <<pc, ret>>
        ELSE /\ Finish(th, "KeyError")
             /\ expired' = [expired EXCEPT ![th] = {}]
             /\ UNCHANGED token_store
    /\ UNCHANGED <<op, arg, nowL, used, startValid,
                   now, ticks, nextTok, issuedAt, hist, last>>

\* security.py:101 -> 117 / 130  the purge returns to its caller
PurgeDone(th) ==
    /\ pc[th] = "purge"
    /\ expired[th] = {}
    /\ pc' = [pc EXCEPT ![th] = IF op[th] = "issue" THEN "store" ELSE "check"]
    /\ UNCHANGED <<op, arg, nowL, used, expired, ret, startValid, tokVars>>

\* security.py:117-119  token = secrets.token_hex(32); store it; return it
StoreToken(th) ==
    /\ pc[th] = "store"
    /\ LET tok == nextTok + 1 IN
        /\ token_store' = DictSet(token_store, tok, StoredExpiry(now))
        /\ nextTok' = tok
        /\ issuedAt' = DictSet(issuedAt, tok, now)
    /\ Finish(th, "Token")
    /\ UNCHANGED <<op, arg, nowL, used, expired, startValid, now, ticks, hist, last>>

\* security.py:130-131  if not token or token not in _token_store: return False
CheckPresent(th) ==
    /\ pc[th] = "check"
    /\ IF arg[th] = EmptyToken \/ arg[th] \notin DOMAIN token_store
       THEN Finish(th, "False")
       ELSE /\ pc' = [pc EXCEPT ![th] = "cmp"]
            /\ UNCHANGED ret
    /\ UNCHANGED <<op, arg, nowL, used, expired, startValid, tokVars>>

\* security.py:133  if time.time() > _token_store[token]
CompareExpiry(th) ==
    /\ pc[th] = "cmp"
    /\ IF arg[th] \notin DOMAIN token_store
       THEN Finish(th, "KeyError")
       ELSE /\ pc' = [pc EXCEPT ![th] =
                      IF now > token_store[arg[th]] THEN "del_exp" ELSE "del_ok"]
            /\ UNCHANGED ret
    /\ UNCHANGED <<op, arg, nowL, used, expired, startValid, tokVars>>

\* security.py:134-135 and 138-139  del _token_store[token]; return
DeleteToken(th) ==
    /\ pc[th] \in {"del_exp", "del_ok"}
    /\ IF arg[th] \notin DOMAIN token_store
       THEN /\ Finish(th, "KeyError")
            /\ UNCHANGED token_store
       ELSE /\ token_store' = DictDel(token_store, arg[th])
            /\ Finish(th, IF pc[th] = "del_ok" THEN "True" ELSE "False")
    /\ UNCHANGED <<op, arg, nowL, used, expired, startValid,
                   now, ticks, nextTok, issuedAt, hist, last>>

\* The response is sent and the thread takes the next request.
Return(th) ==
    /\ pc[th] = "done"
    /\ pc' = [pc EXCEPT ![th] = "idle"]
    /\ op' = [op EXCEPT ![th] = "none"]
    /\ arg' = [arg EXCEPT ![th] = EmptyToken]
    /\ ret' = [ret EXCEPT ![th] = "none"]
    /\ startValid' = [startValid EXCEPT ![th] = FALSE]
    /\ UNCHANGED <<nowL, used, expired, tokVars>>

ClockTick == Tick /\ UNCHANGED thrVars

ConcNext ==
    /\ UNCHANGED <<urlVars, genVars>>
    /\ \/ ClockTick
       \/ \E th \in Threads :
        \/ BeginCall(th)
        \/ ScanStore(th)
        \/ PurgeOne(th)
        \/ PurgeDone(th)
        \/ StoreToken(th)
        \/ CheckPresent(th)
        \/ CompareExpiry(th)
        \/ DeleteToken(th)
        \/ Return(th)

\* ------------------------------------------------------ network classifier
\* An IP address is its version and its groups: four octets for IPv4, eight
\* groups of 16 bits for IPv6.  Version 0 is a string ipaddress cannot parse.
V4(a, b, c, d) == [v |-> 4, g |-> <<a, b, c, d>>]

V6(a, b, c, d, e, f, h, i) == [v |-> 6, g |-> <<a, b, c, d, e, f, h, i>>]

Unparseable == [v |-> 0, g |-> <<>>]

GroupBits(v) == IF v = 4 THEN 8 ELSE 16

\* ipaddress.ip_network("a/len")
Net(a, len) == [v |-> a.v, g |-> a.g, len |-> len]

\* security.py:63-84  _PRIVATE_NETWORKS
PRIVATE_NETWORKS == <<
    Net(V4(0, 0, 0, 0), 8),
    Net(V4(10, 0, 0, 0), 8),
    Net(V4(100, 64, 0, 0), 10),
    Net(V4(127, 0, 0, 0), 8),
    Net(V4(169, 254, 0, 0), 16),
    Net(V4(172, 16, 0, 0), 12),
    Net(V4(192, 0, 0, 0), 24),
    Net(V4(192, 168, 0, 0), 16),
    Net(V4(198, 18, 0, 0), 15),
    Net(V4(198, 51, 100, 0), 24),
    Net(V4(203, 0, 113, 0), 24),
    Net(V4(224, 0, 0, 0), 4),
    Net(V4(240, 0, 0, 0), 4),
    Net(V4(255, 255, 255, 255), 32),
    Net(V6(0, 0, 0, 0, 0, 0, 0, 1), 128),
    Net(V6(64512, 0, 0, 0, 0, 0, 0, 0), 7),
    Net(V6(65152, 0, 0, 0, 0, 0, 0, 0), 10),
    Net(V6(65280, 0, 0, 0, 0, 0, 0, 0), 8) >>

\* How many of the prefix bits of n fall into group i (may be <= 0 or >= width).
PrefixBitsIn(n, i) == n.len - (i - 1) * GroupBits(n.v)

\* A membership test that compares whole groups only, rounding the prefix
\* length up to the next group boundary.
InNetWholeGroups(a, n) ==
    /\ a.v = n.v
    /\ \A i \in 1..Len(n.g) : PrefixBitsIn(n, i) > 0 => a.g[i] = n.g[i]

\* ipaddress: `addr in net`: same version, and the address masked with the
\* netmask equals the network address
InNet(a, n) ==
    /\ a.v = n.v
    /\ \A i \in 1..Len(n.g) :
        LET w == GroupBits(n.v)
            k == PrefixBitsIn(n, i)
        IN IF k >= w THEN a.g[i] = n.g[i]
           ELSE IF k <= 0 THEN TRUE
           ELSE a.g[i] \div 2^(w - k) = n.g[i] \div 2^(w - k)

\* security.py:176-182  _is_private_ip: unparseable counts as private
is_private_ip(a) ==
    IF a.v = 0 THEN TRUE
    ELSE \E i \in 1..Len(PRIVATE_NETWORKS) : InNet(a, PRIVATE_NETWORKS[i])

\* ----------------------------------------------------- addresses to try
\* The first and the last address of a network, and their neighbours outside.
FirstAddr(n) == [v |-> n.v, g |-> n.g]

LastAddr(n) ==
    [v |-> n.v,
     g |-> [i \in 1..Len(n.g) |->
               LET w == GroupBits(n.v)
                   k == PrefixBitsIn(n, i)
               IN IF k >= w THEN n.g[i]
                  ELSE IF k <= 0 THEN 2^w - 1
                  ELSE n.g[i] + 2^(w - k) - 1]]

RECURSIVE IncGroups(_, _, _)
IncGroups(g, i, w) ==
    IF i = 0 THEN g
    ELSE IF g[i] < 2^w - 1 THEN [g EXCEPT ![i] = @ + 1]
    ELSE IncGroups([g EXCEPT ![i] = 0], i - 1, w)

RECURSIVE DecGroups(_, _, _)
DecGroups(g, i, w) ==
    IF i = 0 THEN g
    ELSE IF g[i] > 0 THEN [g EXCEPT ![i] = @ - 1]
    ELSE DecGroups([g EXCEPT ![i] = 2^w - 1], i - 1, w)

IsLowest(a) == \A i \in 1..Len(a.g) : a.g[i] = 0

IsHighest(a) == \A i \in 1..Len(a.g) : a.g[i] = 2^GroupBits(a.v) - 1

AddrAfter(a) == [v |-> a.v, g |-> IncGroups(a.g, Len(a.g), GroupBits(a.v))]

AddrBefore(a) == [v |-> a.v, g |-> DecGroups(a.g, Len(a.g), GroupBits(a.v))]

EdgeAddrs ==
    UNION {
        {FirstAddr(PRIVATE_NETWORKS[i]), LastAddr(PRIVATE_NETWORKS[i])}
        \cup {AddrBefore(a) : a \in {x \in {FirstAddr(PRIVATE_NETWORKS[i])} : ~IsLowest(x)}}
        \cup {AddrAfter(a) : a \in {x \in {LastAddr(PRIVATE_NETWORKS[i])} : ~IsHighest(x)}}
        : i \in 1..Len(PRIVATE_NETWORKS)}

\* Some well-known addresses: public resolvers, the metadata service, the
\* documentation ranges, an IPv4-mapped loopback.
Public4 == V4(8, 8, 8, 8)

Public6 == V6(8193, 18528, 18528, 0, 0, 0, 0, 34952)

Metadata4 == V4(169, 254, 169, 254)

Loopback6 == V6(0, 0, 0, 0, 0, 0, 0, 1)

KnownAddrs ==
    {Public4, Public6, Metadata4, Loopback6,
     V4(1, 1, 1, 1), V4(93, 184, 216, 34),
     V4(192, 0, 2, 1), V6(8193, 3512, 0, 0, 0, 0, 0, 1),
     V6(0, 0, 0, 0, 0, 65535, 32512, 1)}

LiteralAddrs == EdgeAddrs \cup KnownAddrs

\* ------------------------------------------------------------------ URLs
\* A URL as urlparse sees it: `form` says whether it is a non-empty string
\* that parses; `scheme` is the scheme as written; the host is absent, an IP
\* literal or a name (its labels).
NoName == <<>>

\* A URL urlparse accepts.  hkind: the host is absent ("none"), an IP literal
\* ipaddress parses ("ip": addr, and in name the labels of its scope id, if
\* any), or anything else ("name": its labels).
Url(scheme, hkind, addr, name) ==
    [form |-> "ok", scheme |-> scheme, hkind |-> hkind, addr |-> addr, name |-> name]

BadUrl(form) ==
    [form |-> form, scheme |-> "", hkind |-> "none", addr |-> Unparseable, name |-> NoName]

HttpLiteral(a) == Url("http", "ip", a, NoName)

HttpName(n) == Url("https", "name", Unparseable, n)

\* str.lower() on the schemes tried
Lower(s) ==
    CASE s = "HTTP" -> "http"
      [] s = "HTTPS" -> "https"
      [] s = "FTP" -> "ftp"
      [] s = "File" -> "file"
      [] OTHER -> s

\* A deny-list that lost an entry.
BlockedSchemesWithoutFtp == {"file", "gopher", "dict", "ldap", "ldaps", "sftp", "tftp", "jar"}

\* security.py:60  _BLOCKED_SCHEMES
BLOCKED_SCHEMES == {"file", "ftp", "gopher", "dict", "ldap", "ldaps", "sftp", "tftp", "jar"}

\* The host of a URL, as the reasons name it.
HostOf(url) == [hkind |-> url.hkind, addr |-> url.addr, name |-> url.name]

NoHost == [hkind |-> "none", addr |-> Unparseable, name |-> NoName]

\* ------------------------------------------------------------ the resolver
\* What socket.getaddrinfo answers: a list of addresses (duplicates and any
\* order allowed) or socket.gaierror.  The answer is the environment's.
DnsOk(addrs) == [err |-> "none", addrs |-> addrs]

DnsFail(e) == [err |-> e, addrs |-> <<>>]

\* str.encode("idna") inside getaddrinfo fails on a host with an empty label
\* ("example..com", or the scope id of "[2001:4860::1%a..b]") with
\* UnicodeError, which is no socket.gaierror.
IdnaFails(url) == \E i \in 1..Len(url.name) : url.name[i] = ""

\* socket.getaddrinfo(hostname, None)
getaddrinfo(url, dns) == IF IdnaFails(url) THEN DnsFail("UnicodeError") ELSE dns

\* list({r[4][0] for r in results}): each address once; the order of the
\* answer stands for the set's iteration order
RECURSIVE Dedup(_)
Dedup(q) ==
    IF q = <<>> THEN <<>>
    ELSE LET rest == Dedup(Tail(q)) IN
         IF \E i \in 1..Len(rest) : rest[i] = Head(q) THEN rest ELSE <<Head(q)>> \o rest

\* security.py:185-194  _resolve_host: [] on gaierror, other errors propagate
resolve_host(url, dns) ==
    LET r == getaddrinfo(url, dns) IN
    IF r.err = "gaierror" THEN [raised |-> "none", ips |-> <<>>]
    ELSE IF r.err # "none" THEN [raised |-> r.err, ips |-> <<>>]
    ELSE [raised |-> "none", ips |-> Dedup(r.addrs)]

\* -------------------------------------------------------- check_url_safe
Verdict(allowed, reason, scheme, host, lookups, raised) ==
    [allowed |-> allowed, reason |-> reason, scheme |-> scheme, host |-> host,
     lookups |-> lookups, raised |-> raised]

\* An allowing verdict that carries a message.
AllowWithNote(lookups) == Verdict(TRUE, "URL accepted.", "", NoHost, lookups, "none")

\* security.py:247  return True, ""
Allow(lookups) == Verdict(TRUE, "", "", NoHost, lookups, "none")

Reject(reason, scheme, host, lookups) == Verdict(FALSE, reason, scheme, host, lookups, "none")

\* The call ends in an exception: there is no verdict.
Raise(e, lookups) == Verdict(FALSE, "", "", NoHost, lookups, e)

\* security.py:231-236  the host is an IP literal and it is private
LiteralPrivate(url) == url.hkind = "ip" /\ is_private_ip(url.addr)

\* A check of the first resolved address only.
FirstResolvedPrivate(ips) == ips # <<>> /\ is_private_ip(ips[1])

\* security.py:243-245  some resolved address is private
RECURSIVE AnyResolvedPrivate(_)
AnyResolvedPrivate(ips) ==
    IF ips = <<>> THEN FALSE
    ELSE IF is_private_ip(Head(ips)) THEN TRUE
    ELSE AnyResolvedPrivate(Tail(ips))

\* security.py:197-247  check_url_safe, given what the resolver answers if asked
check_url_safe(url, dns) ==
    IF url.form \in {"empty", "nonstring"}
    THEN Reject("URL must be a non-empty string.", "", NoHost, 0)
    ELSE IF url.form = "malformed"
    THEN Reject("URL could not be parsed.", "", NoHost, 0)
    ELSE LET scheme == Lower(url.scheme) IN
    IF scheme \in BLOCKED_SCHEMES
    THEN Reject("Scheme is not permitted.", scheme, NoHost, 0)
    ELSE IF scheme \notin {"http", "https"}
    THEN Reject("Only http and https URLs are accepted.", "", NoHost, 0)
    ELSE IF url.hkind = "none"
    THEN Reject("URL has no hostname.", "", NoHost, 0)
    ELSE IF LiteralPrivate(url)
    THEN Reject("Requests to private/internal IP addresses are not allowed.", "", NoHost, 0)
    ELSE LET r == resolve_host(url, dns) IN
    IF r.raised # "none"
    THEN Raise(r.raised, 1)
    ELSE IF r.ips = <<>>
    THEN Reject("Hostname could not be resolved.", "", HostOf(url), 1)
    ELSE IF AnyResolvedPrivate(r.ips)
    THEN Reject("Hostname resolves to a private/internal address.", "", HostOf(url), 1)
    ELSE Allow(1)

\* -------------------------------------------- SpecUrl: check_url_safe calls
\* The schemes tried: allowed ones (also in upper case), denied ones, and ones
\* that are neither.
TrySchemes == {"http", "https", "HTTP", "ftp", "File", "data", ""}

GoodName == <<"feed", "example">>

EmptyLabelName == <<"example", "", "com">>

TryNames == {GoodName, EmptyLabelName}

\* The rest of the deny-list, an upper-case spelling, and one more scheme that
\* is neither allowed nor denied; tried with a name as host.
MoreSchemes == {"gopher", "dict", "ldap", "ldaps", "sftp", "tftp", "jar", "FTP", "javascript"}

\* Scope ids of IPv6 literals: "%eth9", "%a..b"
TryZones == {<<"eth9">>, <<"a", "", "b">>}

TryUrls ==
    {BadUrl("empty"), BadUrl("nonstring"), BadUrl("malformed")}
    \cup {Url(sc, "none", Unparseable, NoName) : sc \in TrySchemes}
    \cup {Url(sc, "ip", a, NoName) : sc \in TrySchemes, a \in LiteralAddrs}
    \cup {Url("http", "ip", a, z) : a \in {Public6, Loopback6}, z \in TryZones}
    \cup {Url(sc, "name", Unparseable, n) : sc \in TrySchemes, n \in TryNames}
    \cup {Url(sc, "name", Unparseable, GoodName) : sc \in MoreSchemes}

\* The addresses a name may resolve to: public and blocked ones of both
\* families, and a string ipaddress does not parse.
DnsAddrs == {Public4, Public6, Metadata4, Loopback6, Unparseable}

RECURSIVE SeqsUpTo(_, _)
SeqsUpTo(S, n) ==
    IF n = 0 THEN {<<>>}
    ELSE LET shorter == SeqsUpTo(S, n - 1) IN
         shorter \cup {Append(q, x) : q \in shorter, x \in S}

\* What the resolver may answer for a URL's host.  For a name: any list of
\* addresses, or gaierror.  For an IP literal getaddrinfo does no lookup: it
\* answers with the literal itself (once per socket type), or with gaierror
\* when it rejects the literal (a scope id it does not know).
DnsAnswers(url) ==
    IF url.hkind = "ip"
    THEN {DnsOk(<<url.addr>>), DnsOk(<<url.addr, url.addr>>), DnsFail("gaierror")}
    ELSE {DnsOk(q) : q \in SeqsUpTo(DnsAddrs, MaxAddrs)} \cup {DnsFail("gaierror")}

NotAsked == DnsFail("unasked")

\* No fetch of the checked URL was made.
NoConn == [made |-> FALSE, dns |-> NotAsked, addr |-> Unparseable]

UrlInit ==
    /\ urlCall = [url |-> BadUrl("empty"), dns |-> NotAsked,
                  verdict |-> check_url_safe(BadUrl("empty"), NotAsked)]
    /\ batchCall = [urls |-> [isList |-> FALSE, items |-> <<>>], dnsOf |-> <<>>,
                    result |-> [ok |-> FALSE, reason |-> "At least one feed URL is required.",
                                url |-> BadUrl("none"),
                                inner |-> Allow(0), max |-> 0, raised |-> "none",
                                checks |-> <<>>]]
    /\ resolving = "no"
    /\ conn = NoConn

\* One call of check_url_safe
CheckUrl ==
    /\ \E url \in TryUrls : \E dns \in DnsAnswers(url) :
        LET v == check_url_safe(url, dns) IN
        urlCall' = [url |-> url,
                    dns |-> IF v.lookups = 0 THEN NotAsked ELSE getaddrinfo(url, dns),
                    verdict |-> v]
    /\ conn' = NoConn
    /\ UNCHANGED <<batchCall, resolving, tokVars, thrVars, genVars>>

UrlNext == CheckUrl

\* ------------------------------- SpecDns: check_url_safe and a slow resolver
\* security.py:191  socket.getaddrinfo(hostname, None) is a blocking call and
\* is given no timeout: check_url_safe goes on when the resolver answers (an
\* address list, or gaierror when the platform's resolver gives up), not before.
\* A URL rejected before line 239, or a host that fails the idna encoding,
\* does not wait for the resolver.
WaitsForResolver(url) ==
    check_url_safe(url, NotAsked).lookups = 1 /\ ~IdnaFails(url)

\* The call so far, while it waits at line 191.
InGetaddrinfo(url) == [url |-> url, dns |-> NotAsked, verdict |-> Raise("none", 1)]

\* security.py:211-239  check_url_safe is called and runs up to its return
\* or up to the getaddrinfo call
StartCheck ==
    /\ resolving = "no"
    /\ \E url \in TryUrls :
        IF WaitsForResolver(url)
        THEN /\ urlCall' = InGetaddrinfo(url)
             /\ resolving' \in {"answering", "silent"}
        ELSE /\ urlCall' = [url |-> url,
                            dns |-> IF IdnaFails(url) /\ check_url_safe(url, NotAsked).lookups = 1
                                    THEN getaddrinfo(url, NotAsked) ELSE NotAsked,
                            verdict |-> check_url_safe(url, NotAsked)]
             /\ resolving' = "no"
    /\ UNCHANGED <<batchCall, conn, tokVars, thrVars, genVars>>

\* security.py:191-247  getaddrinfo returns or raises gaierror, and
\* check_url_safe runs to its return
ResolverAnswers ==
    /\ resolving = "answering"
    /\ \E dns \in DnsAnswers(urlCall.url) :
        urlCall' = [url |-> urlCall.url, dns |-> dns,
                    verdict |-> check_url_safe(urlCall.url, dns)]
    /\ resolving' = "no"
    /\ UNCHANGED <<batchCall, conn, tokVars, thrVars, genVars>>

DnsNext == StartCheck \/ ResolverAnswers

\* ---------------------------------------------------- validate_feed_urls
\* The `urls` argument: a JSON value that is a list of URLs, or is no list.
FeedList(items) == [isList |-> TRUE, items |-> items]

NotAList == [isList |-> FALSE, items |-> <<>>]

Batch(ok, reason, url, inner, max, raised, checks) ==
    [ok |-> ok, reason |-> reason, url |-> url, inner |-> inner, max |-> max,
     raised |-> raised, checks |-> checks]

NoUrl == BadUrl("none")

NoVerdict == Allow(0)

\* security.py:262-267  the loop over the URLs from the i-th on; `checks` are
\* the check_url_safe calls made so far
RECURSIVE ValidateLoop(_, _, _, _)
ValidateLoop(items, dnsOf, i, checks) ==
    IF i > Len(items)
    THEN Batch(TRUE, "", NoUrl, NoVerdict, 0, "none", checks)
    ELSE LET v == check_url_safe(items[i], dnsOf[i])
             done == Append(checks, [url |-> items[i], verdict |-> v])
         IN IF v.raised # "none"
            THEN Batch(FALSE, "", NoUrl, NoVerdict, 0, v.raised, done)
            ELSE IF ~v.allowed
            THEN Batch(FALSE, "Rejected URL", items[i], v, 0, "none", done)
            ELSE ValidateLoop(items, dnsOf, i + 1, done)

\* A count check that lets one URL too many through.
validate_feed_urls_off_by_one(urls, dnsOf) ==
    IF ~urls.isList \/ Len(urls.items) = 0
    THEN Batch(FALSE, "At least one feed URL is required.", NoUrl, NoVerdict, 0, "none", <<>>)
    ELSE IF Len(urls.items) > MAX_FEEDS + 1
    THEN Batch(FALSE, "A maximum of feed URLs are allowed per request.", NoUrl, NoVerdict,
               MAX_FEEDS, "none", <<>>)
    ELSE ValidateLoop(urls.items, dnsOf, 1, <<>>)

\* security.py:250-267  validate_feed_urls; dnsOf[i] is what the resolver
\* answers when asked about the i-th URL
validate_feed_urls(urls, dnsOf) ==
    IF ~urls.isList \/ Len(urls.items) = 0
    THEN Batch(FALSE, "At least one feed URL is required.", NoUrl, NoVerdict, 0, "none", <<>>)
    ELSE IF Len(urls.items) > MAX_FEEDS
    THEN Batch(FALSE, "A maximum of feed URLs are allowed per request.", NoUrl, NoVerdict,
               MAX_FEEDS, "none", <<>>)
    ELSE ValidateLoop(urls.items, dnsOf, 1, <<>>)

\* ------------------------------------------------ SpecGen: the HTTP routes
\* What a handler did: it checked a URL (ok: the verdict), sent an outbound
\* request to a URL, called fetch_articles, or consumed a CSRF token.
Event(kind, url, ok) == [kind |-> kind, url |-> url, ok |-> ok]

CheckEvents(checks) ==
    [i \in 1..Len(checks) |->
        Event("check_url", checks[i].url,
              checks[i].verdict.allowed /\ checks[i].verdict.raised = "none")]

\* requests.get / feedparser.parse open a connection for an http(s) URL with
\* a host; for anything else they raise before any network I/O.
Fetchable(url) ==
    url.form = "ok" /\ Lower(url.scheme) \in {"http", "https"} /\ url.hkind # "none"

FetchEvents(url) == IF Fetchable(url) THEN <<Event("fetch", url, TRUE)>> ELSE <<>>

\* The JSON field days_back: absent (the default 3 applies), an integer, a
\* boolean (bool is a subclass of int in Python), or another type.
Days(kind, val) == [kind |-> kind, val |-> val]

TryDays ==
    {Days("absent", 3), Days("int", 0), Days("int", 1), Days("int", 30),
     Days("int", 31), Days("bool", 1), Days("other", 3)}

\* server.py:173  isinstance(days_back, int) and 1 <= days_back <= 30
DaysBackOk(d) == d.kind \in {"absent", "int", "bool"} /\ 1 <= d.val /\ d.val <= 30

\* The URLs requests carry: a feed on a public name, the metadata service as
\* a literal, a denied scheme, a name with an empty label.
GenUrls ==
    {HttpName(GoodName), HttpLiteral(Metadata4), HttpLiteral(Public4),
     Url("ftp", "name", Unparseable, GoodName), HttpName(EmptyLabelName)}

TooManyFeeds == [i \in 1..(MAX_FEEDS + 1) |-> HttpName(GoodName)]

TryFeeds ==
    {NotAList, FeedList(TooManyFeeds)}
    \cup {FeedList(q) : q \in SeqsUpTo(GenUrls, MaxFeedsTried)}

\* What the resolver answers in these requests (a URL without a host is never
\* looked up).
GenDnsAnswers(url) ==
    IF url.hkind = "none" THEN {NotAsked}
    ELSE IF url.hkind = "ip"
    THEN {DnsOk(<<url.addr>>), DnsFail("gaierror")}
    ELSE {DnsOk(<<Public4>>), DnsOk(<<Public4, Metadata4>>), DnsFail("gaierror")}

AllGenDns == UNION {GenDnsAnswers(u) : u \in GenUrls \cup {BadUrl("empty")}}

\* One resolver answer per URL of the list.
DnsChoices(items) ==
    IF Len(items) <= MaxFeedsTried
    THEN {f \in [1..Len(items) -> AllGenDns] :
             \A i \in 1..Len(items) : f[i] \in GenDnsAnswers(items[i])}
    ELSE {[i \in 1..Len(items) |->
              IF items[i].hkind = "name" THEN d
              ELSE IF items[i].hkind = "ip" THEN DnsOk(<<items[i].addr>>)
              ELSE NotAsked] : d \in GenDnsAnswers(HttpName(GoodName))}

\* A feed entry: its link, and whether its date is older than the cutoff.
Entry(link, old) == [link |-> link, old |-> old]

TryEntries == {Entry(u, o) : u \in GenUrls \cup {BadUrl("empty")}, o \in BOOLEAN}

EntryLists == SeqsUpTo(TryEntries, MaxEntries)

NoDays == Days("absent", 3)

NoRequest ==
    [route |-> "none", keys |-> "unset", apiKey |-> "none", csrf |-> EmptyToken,
     limitedAt |-> "no", json |-> TRUE, oversize |-> FALSE, days |-> NoDays, feeds |-> NotAList,
     url |-> NoUrl, status |-> 0, error |-> "", detail |-> "", fetchCalls |-> 0, limitKB |-> 0]

GenInit ==
    /\ hpc = "idle"
    /\ http = NoRequest
    /\ events = <<>>
    /\ tmpFile = FALSE

Respond(status, error, limitKB) ==
    /\ hpc' = "done"
    /\ http' = [http EXCEPT !.status = status, !.error = error, !.limitKB = limitKB]

\* The gate server.py puts on its routes (server.py:14, 41, 51, 165).  Its
\* code is not in security.py; from the configuration surface of the
\* specification: a request passes when no key list is configured (fail open)
\* or when it presents a key of the list.
require_api_key(keys, apiKey) == keys = "unset" \/ apiKey = "good"

\* A request arrives at /api/validate or /api/generate and passes, or not, the
\* rate limiter (before_request, or in its decorator) and the gate.
\* server.py:50-53 and 164-167
Receive ==
    /\ hpc \in {"idle", "done"}
    /\ \E route \in {"validate", "generate"},
          auth \in {<<"unset", "none">>, <<"set", "none">>, <<"set", "good">>, <<"set", "bad">>},
          csrf \in Presentable,
          limitedAt \in {"no", "before_request", "decorator"},
          json \in BOOLEAN,
          oversize \in BOOLEAN :
        LET r == [NoRequest EXCEPT !.route = route, !.keys = auth[1], !.apiKey = auth[2],
                                   !.csrf = csrf, !.limitedAt = limitedAt,
                                   !.json = json, !.oversize = oversize]
        IN IF limitedAt = "before_request"
           THEN /\ hpc' = "done"
                /\ http' = [r EXCEPT !.status = 429,
                              !.error = "Rate limit exceeded. Please slow down and try again."]
           ELSE IF ~require_api_key(auth[1], auth[2])
           THEN /\ hpc' = "done"
                /\ http' = [r EXCEPT !.status = 401, !.error = "Unauthorized."]
           ELSE IF limitedAt = "decorator"
           THEN /\ hpc' = "done"
                /\ http' = [r EXCEPT !.status = 429,
                              !.error = "Rate limit exceeded. Please slow down and try again."]
           ELSE /\ hpc' = "body"
                /\ http' = r
    /\ events' = <<>>
    /\ UNCHANGED <<tmpFile, tokVars, thrVars, urlVars>>

\* request.get_json(silent=True) or {} (server.py:54, 168).  get_json reads
\* the body only when the Content-Type is JSON: reading a body longer than
\* MAX_CONTENT_LENGTH raises 413 (security.py:307-313); for any other
\* Content-Type it returns None without reading, and the handler goes on with
\* {} and the defaults of its body.get calls.
BodyTooLarge == http.json /\ http.oversize

BodyDays == IF http.json THEN TryDays ELSE {NoDays}

BodyFeeds == IF http.json THEN TryFeeds ELSE {FeedList(<<>>)}

BodyUrls == IF http.json THEN GenUrls \cup {BadUrl("empty")} ELSE {BadUrl("empty")}

\* server.py:168-178  generate: read the body, check days_back, validate the feeds
GenerateBody ==
    /\ hpc = "body"
    /\ http.route = "generate"
    /\ IF BodyTooLarge
       THEN /\ Respond(413, "Request body exceeds the KB limit.", MAX_BODY_KB)
            /\ UNCHANGED events
       ELSE \E days \in BodyDays, feeds \in BodyFeeds :
            \E dnsOf \in DnsChoices(feeds.items) :
               LET b == validate_feed_urls(feeds, dnsOf)
                   r == [http EXCEPT !.days = days, !.feeds = feeds]
               IN IF ~DaysBackOk(days)
                  THEN /\ hpc' = "done"
                       /\ http' = [r EXCEPT !.status = 400,
                                     !.error = "'days_back' must be an integer between 1 and 30."]
                       /\ UNCHANGED events
                  ELSE /\ events' = events \o CheckEvents(b.checks)
                       /\ IF b.raised # "none"
                          THEN /\ hpc' = "done"
                               /\ http' = [r EXCEPT !.status = 500,
                                             !.error = "Internal Server Error"]
                          ELSE IF ~b.ok
                          THEN /\ hpc' = "done"
                               /\ http' = [r EXCEPT !.status = 400, !.error = b.reason,
                                             !.url = b.url, !.detail = b.inner.reason]
                          ELSE /\ hpc' = "scrape"
                               /\ http' = r
    /\ UNCHANGED <<tmpFile, tokVars, thrVars, urlVars>>

\* main.py:201-213  the entries of one feed: the link of every entry that is
\* not older than the cutoff is scraped
RECURSIVE EntryFetches(_)
EntryFetches(entries) ==
    IF entries = <<>> THEN <<>>
    ELSE (IF Head(entries).old THEN <<>> ELSE FetchEvents(Head(entries).link))
         \o EntryFetches(Tail(entries))

\* main.py:196-224  the outbound requests of fetch_articles for the feeds
\* from the i-th on; failAt > 0: an exception ends the call once the
\* failAt-th feed is fetched (feedparser.parse or the date comparison raises)
RECURSIVE FeedFetches(_, _, _, _)
FeedFetches(items, entriesOf, i, failAt) ==
    IF i > Len(items) THEN <<>>
    ELSE IF i = failAt THEN FetchEvents(items[i])
    ELSE FetchEvents(items[i]) \o EntryFetches(entriesOf[i])
         \o FeedFetches(items, entriesOf, i + 1, failAt)

\* main.py:204-224  the articles collected: one per entry that is not too old
ArticleCount(items, entriesOf) ==
    Cardinality({<<i, j>> \in (1..Len(items)) \X (1..MaxEntries) :
                    j <= Len(entriesOf[i]) /\ ~entriesOf[i][j].old})

\* server.py:190-193 and 203-209  the temporary file is created, and in the
\* finally clause os.unlink is called on it: it removes the file or raises
\* an OSError that is passed over
TempFileEvents(built, unlinked) ==
    IF built
    THEN <<Event("NamedTemporaryFile", NoUrl, TRUE), Event("unlink", NoUrl, unlinked)>>
    ELSE <<>>

\* server.py:181-209  generate: fetch_articles, build the PDF, send it, and
\* remove the temporary file
GenerateScrape ==
    /\ hpc = "scrape"
    /\ \E entriesOf \in [1..Len(http.feeds.items) -> EntryLists],
          failure \in {"none", "scrape", "build_pdf", "send_file"},
          failAt \in 0..Len(http.feeds.items),
          text \in {"timeout", "connection refused by 10.0.0.7"},
          unlinked \in BOOLEAN :
        LET called == <<Event("fetch_articles", NoUrl, TRUE)>>
            fetched == FeedFetches(http.feeds.items, entriesOf, 1, failAt)
            r == [http EXCEPT !.fetchCalls = @ + 1]
            built == failure # "scrape" /\ ArticleCount(http.feeds.items, entriesOf) > 0
        IN /\ failure = "none" => text = "timeout"
           /\ failure = "scrape" <=> failAt > 0
           /\ ~built => unlinked
           /\ events' = events \o called \o fetched \o TempFileEvents(built, unlinked)
           /\ hpc' = "done"
           /\ IF failure = "scrape"
              THEN /\ http' = [r EXCEPT !.status = 500, !.error = "Scraping failed: ",
                                 !.detail = text]
                   /\ UNCHANGED tmpFile
              ELSE IF ~built
              THEN /\ http' = [r EXCEPT !.status = 404,
                                 !.error = "No articles found in the requested time window."]
                   /\ UNCHANGED tmpFile
              ELSE /\ http' = IF failure = "none"
                              THEN [r EXCEPT !.status = 200]
                              ELSE [r EXCEPT !.status = 500,
                                      !.error = "PDF generation failed: ", !.detail = text]
                   \* server.py:203-209: os.unlink; an OSError from it is passed over
                   /\ tmpFile' = ~unlinked
    /\ UNCHANGED <<tokVars, thrVars, urlVars>>

\* server.py:54-63  validate: read the body, check the URL
ValidateBody ==
    /\ hpc = "body"
    /\ http.route = "validate"
    /\ IF BodyTooLarge
       THEN /\ Respond(413, "Request body exceeds the KB limit.", MAX_BODY_KB)
            /\ UNCHANGED events
       ELSE \E url \in BodyUrls : \E dns \in GenDnsAnswers(url) :
               LET v == check_url_safe(url, dns)
                   r == [http EXCEPT !.url = url]
               IN IF url.form = "empty"
                  THEN /\ hpc' = "done"
                       /\ http' = [r EXCEPT !.status = 400, !.error = "A feed URL is required."]
                       /\ UNCHANGED events
                  ELSE /\ events' = events \o CheckEvents(<<[url |-> url, verdict |-> v]>>)
                       /\ IF v.raised # "none"
                          THEN /\ hpc' = "done"
                               /\ http' = [r EXCEPT !.status = 500,
                                             !.error = "Internal Server Error"]
                          ELSE IF ~v.allowed
                          THEN /\ hpc' = "done"
                               /\ http' = [r EXCEPT !.status = 400, !.error = "URL rejected: ",
                                             !.detail = v.reason]
                          ELSE /\ hpc' = "probe"
                               /\ http' = r
    /\ UNCHANGED <<tmpFile, tokVars, thrVars, urlVars>>

\* server.py:126-129  the first of entries[:5] that has a link and whose link
\* check_url_safe allows, or on whose link the check raises; 0 if there is none
RECURSIVE FirstSafe(_, _, _)
FirstSafe(entries, dnsOf, i) ==
    IF i > Len(entries) \/ i > 5 THEN 0
    ELSE IF entries[i].link.form = "empty" THEN FirstSafe(entries, dnsOf, i + 1)
    ELSE LET v == check_url_safe(entries[i].link, dnsOf[i])
         IN IF v.allowed \/ v.raised # "none" THEN i
            ELSE FirstSafe(entries, dnsOf, i + 1)

\* server.py:127  the check_url_safe calls made on the links of entries i..upto
RECURSIVE LinkChecks(_, _, _, _)
LinkChecks(entries, dnsOf, i, upto) ==
    IF i > upto THEN <<>>
    ELSE (IF entries[i].link.form = "empty" THEN <<>>
          ELSE <<[url |-> entries[i].link,
                  verdict |-> check_url_safe(entries[i].link, dnsOf[i])]>>)
         \o LinkChecks(entries, dnsOf, i + 1, upto)

Min(a, b) == IF a < b THEN a ELSE b

\* server.py:77-158  validate: fetch the feed, parse it, scrape one safe link
ValidateProbe ==
    /\ hpc = "probe"
    /\ \E reachable \in BOOLEAN, entries \in EntryLists :
       \E dnsOf \in DnsChoices([i \in 1..Len(entries) |-> entries[i].link]) :
        LET k == FirstSafe(entries, dnsOf, 1)
            checks == LinkChecks(entries, dnsOf, 1,
                                 IF k = 0 THEN Min(Len(entries), 5) ELSE k)
            raises == k > 0 /\ check_url_safe(entries[k].link, dnsOf[k]).raised # "none"
            probed == FetchEvents(http.url) \o FetchEvents(http.url)
        IN /\ ~reachable => entries = <<>>
           /\ hpc' = "done"
           /\ IF ~reachable
              THEN /\ events' = events \o FetchEvents(http.url)
                   /\ http' = [http EXCEPT !.status = 200, !.detail = "error"]
              ELSE IF entries = <<>>
              THEN /\ events' = events \o probed
                   /\ http' = [http EXCEPT !.status = 200, !.detail = "error"]
              ELSE IF raises
              THEN /\ events' = events \o probed \o CheckEvents(checks)
                   /\ http' = [http EXCEPT !.status = 500, !.error = "Internal Server Error"]
              ELSE /\ events' = events \o probed \o CheckEvents(checks)
                                  \o (IF k = 0 THEN <<>> ELSE FetchEvents(entries[k].link))
                   /\ http' = [http EXCEPT !.status = 200,
                                 !.detail = IF k = 0 THEN "partial" ELSE "ok"]
    /\ UNCHANGED <<tmpFile, tokVars, thrVars, urlVars>>

GenNext == Receive \/ GenerateBody \/ GenerateScrape \/ ValidateBody \/ ValidateProbe

\* ------------------------------ SpecFetch: a URL is checked, then fetched
\* What the resolver may answer when the HTTP client asks it at fetch time.
\* Nothing ties this answer to the one check_url_safe got: the name's owner
\* chooses both (a record with a short TTL may change in between).
FetchAnswers(url) ==
    IF url.hkind = "ip"
    THEN {DnsOk(<<url.addr>>)}
    ELSE {DnsOk(<<a>>) : a \in {Public4, Metadata4, Loopback6}} \cup {DnsFail("gaierror")}

\* main.py:198  feedparser.parse(feed_url), reached from server.py:176-182 only
\* when the URL's check allowed it.  The HTTP client is handed the URL, not the
\* addresses the check saw: it resolves the host again and connects to the
\* first address of that answer, or fails when the name does not resolve.
FetchUrl ==
    /\ ~conn.made
    /\ urlCall.verdict.allowed
    /\ urlCall.verdict.raised = "none"
    /\ Fetchable(urlCall.url)
    /\ \E dns \in FetchAnswers(urlCall.url) :
        conn' = [made |-> dns.err = "none", dns |-> dns,
                 addr |-> IF dns.err = "none" THEN dns.addrs[1] ELSE Unparseable]
    /\ UNCHANGED <<urlCall, batchCall, resolving, tokVars, thrVars, genVars>>

FetchNext == CheckUrl \/ FetchUrl

\* ------------------------------------------- SpecBatch: validate_feed_urls
\* A list of exactly MAX_FEEDS URLs: public names, and the metadata service as
\* a literal at position k (nowhere for k = 0).
FullBatch(k) ==
    [i \in 1..MAX_FEEDS |-> IF i = k THEN HttpLiteral(Metadata4) ELSE HttpName(GoodName)]

\* List elements that check_url_safe turns down before it looks at a host: an
\* empty string, a value that is no string, a string urlparse fails on, a URL
\* without a host, a scheme that is neither allowed nor denied.
OddUrls ==
    {BadUrl("empty"), BadUrl("nonstring"), BadUrl("malformed"),
     Url("http", "none", Unparseable, NoName), Url("data", "name", Unparseable, GoodName)}

TryBatches ==
    TryFeeds \cup {FeedList(FullBatch(k)) : k \in {0, 1, MAX_FEEDS}}
             \cup {FeedList(<<u>>) : u \in OddUrls}

\* One call of validate_feed_urls
CheckBatch ==
    /\ \E urls \in TryBatches : \E dnsOf \in DnsChoices(urls.items) :
        batchCall' = [urls |-> urls, dnsOf |-> dnsOf,
                      result |-> validate_feed_urls(urls, dnsOf)]
    /\ UNCHANGED <<urlCall, resolving, conn, tokVars, thrVars, genVars>>

BatchNext == CheckBatch

\* ------------------------------------------------------- specifications
vars == <<tokVars, thrVars, urlVars, genVars>>

Init == TokInit /\ ThrInit /\ UrlInit /\ GenInit

Spec == Init /\ [][TokNext]_vars

SpecConc == Init /\ [][ConcNext]_vars

SpecUrl == Init /\ [][UrlNext]_vars

SpecGen == Init /\ [][GenNext]_vars

SpecBatch == Init /\ [][BatchNext]_vars

SpecFetch == Init /\ [][FetchNext]_vars

\* The routes of server.py on a process in which issue_csrf_token has been
\* called once, as the route of its docstring does (security.py:109-114): one
\* token is stored and unexpired, and a client may present it.
InitIssued ==
    /\ token_store = issue_csrf_token(EmptyStore, 1, 0, 0)
    /\ now = 0
    /\ ticks = 0
    /\ nextTok = 1
    /\ issuedAt = DictSet(EmptyStore, 1, 0)
    /\ hist = DictSet(EmptyStore, 1, <<>>)
    /\ last = [op |-> "issue", tok |-> 1, ret |-> TRUE, before |-> EmptyStore,
               t1 |-> 0, t2 |-> 0, resp |-> [status |-> 200, error |-> ""]]
    /\ ThrInit /\ UrlInit /\ GenInit

SpecRetry == InitIssued /\ [][GenNext]_vars

\* Calls are started and answers of the resolver are taken up whenever they
\* can be; no step of the code ends a call whose query stays unanswered.
SpecDns == Init /\ [][DnsNext]_vars /\ WF_vars(StartCheck) /\ WF_vars(ResolverAnswers)

\* ------------------------------------------------------------ token claims
\* The expiry the token t was issued with: its issue time plus the TTL.
ExpiryOf(t) == issuedAt[t] + TOKEN_TTL_SECONDS

\* C1: single use.  Of the consume calls on an issued token that complete
\* before the token expires, the first returns True and every later one
\* returns False, whatever issue and consume calls on other tokens come between.
C1_SingleUse ==
    \A t \in DOMAIN hist : \A i \in 1..Len(hist[t]) :
        hist[t][i].at <= ExpiryOf(t) => (hist[t][i].ret = (i = 1))

\* Two tokens are out, both were consumed, and one of them twice in time.
C1_Witness ==
    \E t, u \in DOMAIN hist :
        /\ t # u
        /\ Len(hist[u]) >= 1
        /\ Len(hist[t]) >= 2
        /\ hist[t][2].at <= ExpiryOf(t)
        /\ hist[t][1].ret = TRUE
        /\ hist[t][2].ret = FALSE

\* C2: of two overlapping consume calls on the same stored, unexpired token,
\* one returns True and the other returns False.
C2_ExactlyOneWins ==
    \A a, b \in Threads :
        ( /\ a # b
          /\ pc[a] = "done" /\ pc[b] = "done"
          /\ op[a] = "consume" /\ op[b] = "consume"
          /\ arg[a] = arg[b]
          /\ startValid[a] /\ startValid[b]
          /\ arg[a] \in DOMAIN issuedAt
          /\ now <= ExpiryOf(arg[a]) )
        => {ret[a], ret[b]} = {"True", "False"}

\* What consuming a never-issued token does from the same store at the same times.
UnknownOutcome == consume_csrf_token(last.before, ForgedToken, last.t1, last.t2)

\* The last call was a consume of an issued token begun after its expiry.
LateConsume ==
    /\ last.op = "consume"
    /\ last.tok \in DOMAIN issuedAt
    /\ last.t1 > ExpiryOf(last.tok)

\* C3: a consume begun later than issue time + TTL returns False and leaves the
\* token out of the store, as the consume of a never-issued token does: same
\* return value, same resulting store.
C3_ExpiredLikeUnknown ==
    LateConsume =>
        /\ last.ret = FALSE
        /\ last.tok \notin DOMAIN token_store
        /\ last.ret = UnknownOutcome.ret
        /\ token_store = UnknownOutcome.store

\* A late consume of a token that no purge had removed yet and that was never
\* consumed before.
C3_Witness ==
    /\ LateConsume
    /\ last.tok \in DOMAIN last.before
    /\ Len(hist[last.tok]) = 1

\* A late consume of a token that an earlier purge had already removed.
C3_WitnessPurged ==
    /\ LateConsume
    /\ last.tok \notin DOMAIN last.before
    /\ Len(hist[last.tok]) = 1

\* The last request through the gate was rejected.
GateRejected == last.op = "consume" /\ ~last.ret

\* C14: the gate answers every rejected token alike, whether the token is
\* missing, was never issued, has expired or was consumed before: status 401
\* and the one message.
C14_RejectionUniform ==
    GateRejected => last.resp = [status |-> 401, error |-> "Unauthorized."]

\* A replayed token is rejected: the token was consumed with True before and
\* is presented again before its expiry.
C14_Witness ==
    /\ GateRejected
    /\ last.tok \in DOMAIN issuedAt
    /\ Len(hist[last.tok]) = 2
    /\ hist[last.tok][1].ret
    /\ last.t2 <= ExpiryOf(last.tok)
    /\ last.resp.status = 401

\* The other causes are rejected too: no token, a forged one, an expired one.
C14_WitnessMissing == GateRejected /\ last.tok = EmptyToken /\ nextTok > 0

C14_WitnessForged == GateRejected /\ last.tok = ForgedToken /\ nextTok > 0

C14_WitnessExpired ==
    /\ GateRejected
    /\ last.tok \in DOMAIN issuedAt
    /\ Len(hist[last.tok]) = 1
    /\ last.t2 > ExpiryOf(last.tok)

\* C19: every token in the store was issued, no consume of it has returned
\* True, and its stored expiry is its issue time plus the TTL.
C19_StoreInvariant ==
    \A t \in DOMAIN token_store :
        /\ t \in DOMAIN issuedAt
        /\ \A i \in 1..Len(hist[t]) : ~hist[t][i].ret
        /\ token_store[t] = issuedAt[t] + TOKEN_TTL_SECONDS

\* A token is still stored after the clock moved on, a later token was
\* issued and that one was consumed.
C19_Witness ==
    \E t, u \in DOMAIN issuedAt :
        /\ t \in DOMAIN token_store
        /\ issuedAt[u] > issuedAt[t]
        /\ Len(hist[u]) >= 1 /\ hist[u][1].ret
        /\ u \notin DOMAIN token_store

\* The same over interleaved calls: a stored token was issued, keeps the
\* expiry it was issued with, and no call that consumed it has returned True.
StoreInvariantInterleaved ==
    \A t \in DOMAIN token_store :
        /\ t \in DOMAIN issuedAt
        /\ token_store[t] = issuedAt[t] + TOKEN_TTL_SECONDS
        /\ \A th \in Threads : (op[th] = "consume" /\ arg[th] = t) => ret[th] # "True"

\* C15: interleaved issue and consume calls behave as some serial order of
\* them does.  Calls made one after the other always return (a token, True or
\* False), so in particular no interleaved call ends in an exception raised
\* because another call changed the store under it.
C15_NoCallFails ==
    \A th \in Threads : ret[th] \notin {"KeyError", "RuntimeError"}

\* The token t was issued and no consume of it has returned True.
Unconsumed(t) ==
    t \in DOMAIN hist /\ \A i \in 1..Len(hist[t]) : ~hist[t][i].ret

\* C22: purge on issue.  Right after an issue_csrf_token call the store holds
\* no entry whose expiry is earlier than the time of the call, so what it holds
\* is among the tokens issued within the last TTL before the call and not yet
\* consumed.
C22_PurgeOnIssue ==
    last.op = "issue" =>
        /\ \A k \in DOMAIN token_store : token_store[k] >= last.t1
        /\ \A k \in DOMAIN token_store :
              /\ k \in DOMAIN issuedAt
              /\ issuedAt[k] >= last.t1 - TOKEN_TTL_SECONDS
              /\ Unconsumed(k)

\* An issue found a stale token in the store and purged it.
C22_Witness ==
    /\ last.op = "issue"
    /\ \E k \in DOMAIN last.before :
          last.before[k] < last.t1 /\ k \notin DOMAIN token_store

\* An issue made at the very expiry instant of a stored token keeps it.
C22_WitnessKept ==
    /\ last.op = "issue"
    /\ \E k \in DOMAIN last.before :
          last.before[k] = last.t1 /\ k \in DOMAIN token_store

\* The last call was a consume of no token, of a never-issued token or of a
\* token that an earlier consume had accepted.
HopelessConsume ==
    /\ last.op = "consume"
    /\ \/ last.tok \in {EmptyToken, ForgedToken}
       \/ last.tok \in DOMAIN hist /\ \E i \in 1..(Len(hist[last.tok]) - 1) :
                                         hist[last.tok][i].ret

\* C27: frame of a failed consume.  A consume of an empty, unknown or
\* already-consumed token returns False and removes from the store exactly the
\* entries whose expiry is earlier than now; every unexpired token of another
\* client stays stored with its expiry and a consume of it would return True.
C27_FailedConsumeFrame ==
    HopelessConsume =>
        /\ last.ret = FALSE
        /\ \A k \in DOMAIN last.before :
              k \notin DOMAIN token_store => last.before[k] < last.t1
        /\ \A k \in DOMAIN last.before :
              last.before[k] >= now =>
                  /\ k \in DOMAIN token_store
                  /\ token_store[k] = last.before[k]
                  /\ consume_csrf_token(token_store, k, now, now).ret

\* A replayed token is refused while another client's unexpired token is stored.
C27_Witness ==
    /\ HopelessConsume
    /\ last.tok \in DOMAIN hist
    /\ \E k \in DOMAIN last.before : k # last.tok /\ last.before[k] >= now

\* A forged token is refused and the call purges a stale token on its way.
C27_WitnessPurge ==
    /\ HopelessConsume
    /\ last.tok = ForgedToken
    /\ \E k \in DOMAIN last.before : last.before[k] < last.t1

\* The last call was a consume of a token that was in the store.
StoredConsume == last.op = "consume" /\ last.tok \in DOMAIN last.before

\* C28: expiry boundary.  The purge removes a token only when expiry < now and
\* a consume rejects a stored token only when now > expiry: a consume at the
\* very expiry instant is accepted, and when the clock does not advance inside
\* the call, a stored token is rejected only if the purge had removed it, never
\* at the comparison of line 133.
C28_ExpiryBoundary ==
    /\ last.op \in {"issue", "consume"} =>
          \A k \in DOMAIN last.before :
              (k \notin DOMAIN token_store /\ k # last.tok) => last.before[k] < last.t1
    /\ StoredConsume =>
          /\ ~last.ret => last.t2 > last.before[last.tok]
          /\ last.t2 = last.before[last.tok] => last.ret
          /\ (last.t1 = last.t2 /\ ~last.ret) => last.before[last.tok] < last.t1

\* A token is consumed at exactly issue time + TTL, and accepted.
C28_Witness ==
    /\ StoredConsume
    /\ last.t1 = ExpiryOf(last.tok)
    /\ last.t2 = ExpiryOf(last.tok)
    /\ last.before[last.tok] = ExpiryOf(last.tok)
    /\ last.ret

\* The clock advances inside the call: the token passes the purge and is
\* rejected at the comparison.
C28_WitnessLateBranch ==
    /\ StoredConsume
    /\ last.before[last.tok] >= last.t1
    /\ last.t2 > last.before[last.tok]
    /\ ~last.ret

\* -------------------------------------------------------------- URL claims
\* An address lies in a network when it is between the network's first and
\* last address, groups compared left to right.
AddrLeq(g, h) ==
    \/ g = h
    \/ \E i \in 1..Len(g) : g[i] < h[i] /\ \A j \in 1..(i - 1) : g[j] = h[j]

InRange(a, n) ==
    /\ a.v = n.v
    /\ AddrLeq(FirstAddr(n).g, a.g)
    /\ AddrLeq(a.g, LastAddr(n).g)

\* The address is inside one of the enumerated blocked ranges.
Blocked(a) == \E i \in 1..Len(PRIVATE_NETWORKS) : InRange(a, PRIVATE_NETWORKS[i])

\* The last call checked an http/https URL.
HttpCall == urlCall.url.form = "ok" /\ Lower(urlCall.url.scheme) \in {"http", "https"}

\* The deny-list as the specification enumerates it.
DenyListed(scheme) ==
    scheme \in {"file", "ftp", "gopher", "dict", "ldap", "ldaps", "sftp", "tftp", "jar"}

\* The last call checked a URL urlparse accepts whose scheme, in lower case,
\* is neither http nor https.
OtherSchemeCall ==
    urlCall.url.form = "ok" /\ Lower(urlCall.url.scheme) \notin {"http", "https"}

\* C11: a URL whose lower-cased scheme is not http or https is rejected
\* without the resolver being asked; a deny-listed scheme gets the
\* not-permitted reason (naming the scheme), any other scheme the
\* only-http-and-https reason, and the two reasons differ.
C11_SchemeStage ==
    OtherSchemeCall =>
        /\ ~urlCall.verdict.allowed
        /\ urlCall.verdict.raised = "none"
        /\ urlCall.verdict.lookups = 0
        /\ urlCall.dns = DnsFail("unasked")
        /\ IF DenyListed(Lower(urlCall.url.scheme))
           THEN /\ urlCall.verdict.reason = "Scheme is not permitted."
                /\ urlCall.verdict.scheme = Lower(urlCall.url.scheme)
           ELSE urlCall.verdict.reason = "Only http and https URLs are accepted."

\* ftp://feed.example/ is rejected as not permitted although the resolver
\* would have answered with public addresses.
C11_Witness ==
    /\ urlCall.url = Url("ftp", "name", Unparseable, GoodName)
    /\ ~urlCall.verdict.allowed
    /\ urlCall.verdict.reason = "Scheme is not permitted."
    /\ urlCall.dns = DnsFail("unasked")

\* The last call asked the resolver and got a list of addresses.
Answered == urlCall.dns.err = "none"

SomeAnswerBlocked ==
    /\ Answered
    /\ \E i \in 1..Len(urlCall.dns.addrs) :
        urlCall.dns.addrs[i].v # 0 /\ Blocked(urlCall.dns.addrs[i])

\* C7: rebinding defence.  When the resolver's answer contains a blocked
\* address, the verdict is not-allowed, however many public addresses the
\* answer also lists and wherever in the answer the blocked one stands.
C7_RebindingRejected ==
    SomeAnswerBlocked => ~urlCall.verdict.allowed /\ urlCall.verdict.raised = "none"

\* A name answered with a public address first and a blocked one after it.
C7_Witness ==
    /\ HttpCall
    /\ urlCall.url.hkind = "name"
    /\ urlCall.dns = DnsOk(<<Public4, Metadata4>>)
    /\ ~urlCall.verdict.allowed

BlockedLiteralCall ==
    /\ HttpCall
    /\ urlCall.url.hkind = "ip"
    /\ Blocked(urlCall.url.addr)

\* C8: an http/https URL whose host is a literal address inside a blocked
\* range is not allowed, and the resolver is not asked.
C8_BlockedLiteralRejected ==
    BlockedLiteralCall =>
        /\ ~urlCall.verdict.allowed
        /\ urlCall.verdict.raised = "none"
        /\ urlCall.verdict.lookups = 0
        /\ urlCall.dns = NotAsked

\* 172.31.255.255, the last address of 172.16.0.0/12, is rejected.
C8_Witness ==
    /\ BlockedLiteralCall
    /\ urlCall.url.addr = V4(172, 31, 255, 255)
    /\ ~urlCall.verdict.allowed

PublicLiteralCall ==
    /\ HttpCall
    /\ urlCall.url.hkind = "ip"
    /\ ~Blocked(urlCall.url.addr)

\* C9 as claimed: a literal address outside every blocked range is allowed
\* whatever the resolver does.
C9_PublicLiteralAllowed == PublicLiteralCall => urlCall.verdict.allowed

\* What the code does for a literal address outside every blocked range: it
\* asks the resolver, allows the URL when the resolver answers with the
\* literal, rejects it as unresolvable on gaierror, and raises on UnicodeError.
PublicLiteralFollowsResolver ==
    PublicLiteralCall =>
        /\ urlCall.verdict.lookups = 1
        /\ IF urlCall.dns.err = "UnicodeError"
           THEN urlCall.verdict.raised = "UnicodeError"
           ELSE IF Answered /\ urlCall.dns.addrs # <<>>
           THEN urlCall.verdict.allowed /\ urlCall.verdict.reason = ""
           ELSE /\ ~urlCall.verdict.allowed
                /\ urlCall.verdict.raised = "none"
                /\ urlCall.verdict.reason = "Hostname could not be resolved."

\* The last call asked the resolver about a name and got no address.
UnresolvedNameCall ==
    /\ HttpCall
    /\ urlCall.url.hkind = "name"
    /\ urlCall.dns # NotAsked
    /\ (urlCall.dns.err # "none" \/ urlCall.dns.addrs = <<>>)

\* C10: when the resolution of a name yields no address or fails, the call
\* returns not-allowed with the could-not-be-resolved reason.
C10_UnresolvedRejected ==
    UnresolvedNameCall =>
        /\ urlCall.verdict.raised = "none"
        /\ ~urlCall.verdict.allowed
        /\ urlCall.verdict.reason = "Hostname could not be resolved."

\* The weaker half of C10, which the code keeps: no failed resolution ends allowed.
C10_FailureNeverAllows == UnresolvedNameCall => ~urlCall.verdict.allowed

\* C18: every check_url_safe call ends with a verdict: a call that waits for
\* the resolver ends even when the resolver never answers.
C18_CheckEnds == (resolving # "no") ~> (resolving = "no")

\* What does end: a call whose query the resolver answers.
AnsweredCheckEnds == (resolving = "answering") ~> (resolving = "no")

\* What holds: a call that ended after waiting for the resolver has a verdict
\* that follows the answer; none ended without an answer.
EndsOnlyOnAnswer ==
    (resolving = "no" /\ urlCall.verdict.lookups = 1 /\ urlCall.verdict.raised = "none")
        => urlCall.dns # NotAsked

\* The address classes of C24 as the registries define them (RFC 1122, 3927,
\* 4291, 1918, 4193, 5771, 5737, 3849); the metadata services (169.254.169.254,
\* fd00:ec2::254) lie inside the link-local and unique-local ranges.
LoopbackNets == {Net(V4(127, 0, 0, 0), 8), Net(V6(0, 0, 0, 0, 0, 0, 0, 1), 128)}

LinkLocalNets == {Net(V4(169, 254, 0, 0), 16), Net(V6(65152, 0, 0, 0, 0, 0, 0, 0), 10)}

PrivateNets ==
    {Net(V4(10, 0, 0, 0), 8), Net(V4(172, 16, 0, 0), 12), Net(V4(192, 168, 0, 0), 16),
     Net(V6(64512, 0, 0, 0, 0, 0, 0, 0), 7)}

MulticastNets == {Net(V4(224, 0, 0, 0), 4), Net(V6(65280, 0, 0, 0, 0, 0, 0, 0), 8)}

DocumentationNets ==
    {Net(V4(192, 0, 2, 0), 24), Net(V4(198, 51, 100, 0), 24), Net(V4(203, 0, 113, 0), 24),
     Net(V6(8193, 3512, 0, 0, 0, 0, 0, 0), 32)}

InSome(a, nets) == \E n \in nets : InRange(a, n)

\* The last call was made on a URL whose host is a literal address.
LiteralCall == urlCall.url.form = "ok" /\ urlCall.url.hkind = "ip"

\* C24: every address that is loopback, link-local, private, a metadata
\* service, multicast or in a documentation range, of either family, is
\* classified blocked by _is_private_ip.
C24_ClassesBlocked ==
    ( /\ LiteralCall
      /\ InSome(urlCall.url.addr, LoopbackNets \cup LinkLocalNets \cup PrivateNets
                                      \cup MulticastNets \cup DocumentationNets) )
    => is_private_ip(urlCall.url.addr)

\* What the table does cover: every class but the documentation ranges, and of
\* those the two IPv4 ranges it lists.
ListedClassesBlocked ==
    ( /\ LiteralCall
      /\ InSome(urlCall.url.addr,
                LoopbackNets \cup LinkLocalNets \cup PrivateNets \cup MulticastNets
                \cup {Net(V4(198, 51, 100, 0), 24), Net(V4(203, 0, 113, 0), 24)}) )
    => is_private_ip(urlCall.url.addr)

\* An address of 192.0.2.0/24 or 2001:db8::/32 is classified not blocked, and
\* a URL with it as host is allowed when getaddrinfo hands the literal back.
DocumentationLiteralAllowed ==
    /\ HttpCall
    /\ LiteralCall
    /\ InSome(urlCall.url.addr, DocumentationNets)
    /\ ~is_private_ip(urlCall.url.addr)
    /\ urlCall.verdict.allowed

\* ------------------------------------------- claims on validate_feed_urls
\* The last call got a list that is empty or longer than MAX_FEEDS.
BadSizeCall ==
    /\ batchCall.urls.isList
    /\ Len(batchCall.urls.items) = 0 \/ Len(batchCall.urls.items) > MAX_FEEDS

\* C12: an empty list and a list of more than MAX_FEEDS URLs are not ok and no
\* URL of them is checked (so no lookup is made); the over-long list gets the
\* too-many reason, which names MAX_FEEDS.
C12_BadSizeRejected ==
    BadSizeCall =>
        /\ ~batchCall.result.ok
        /\ batchCall.result.raised = "none"
        /\ batchCall.result.checks = <<>>
        /\ IF Len(batchCall.urls.items) > MAX_FEEDS
           THEN /\ batchCall.result.reason = "A maximum of feed URLs are allowed per request."
                /\ batchCall.result.max = MAX_FEEDS
           ELSE batchCall.result.reason = "At least one feed URL is required."

\* Eleven URLs, each of which the resolver would answer for.
C12_Witness ==
    /\ Len(batchCall.urls.items) = MAX_FEEDS + 1
    /\ batchCall.dnsOf[1] = DnsOk(<<Public4>>)
    /\ ~batchCall.result.ok
    /\ batchCall.result.max = MAX_FEEDS

\* The verdict of the i-th URL of the last call, taken on its own.
VerdictOf(i) == check_url_safe(batchCall.urls.items[i], batchCall.dnsOf[i])

\* The last call got a list of admissible size with a URL that fails its check.
FailingUrlCall ==
    /\ batchCall.urls.isList
    /\ Len(batchCall.urls.items) \in 1..MAX_FEEDS
    /\ \E i \in 1..Len(batchCall.urls.items) : ~VerdictOf(i).allowed

FirstFailing ==
    CHOOSE k \in 1..Len(batchCall.urls.items) :
        /\ ~VerdictOf(k).allowed
        /\ \A j \in 1..(k - 1) : VerdictOf(j).allowed

\* C13: the URLs are checked in list order up to the first failing one; the
\* result names that URL and its reason, and no later URL is checked.
C13_FirstFailureNamed ==
    FailingUrlCall =>
        /\ ~batchCall.result.ok
        /\ batchCall.result.raised = "none"
        /\ batchCall.result.reason = "Rejected URL"
        /\ batchCall.result.url = batchCall.urls.items[FirstFailing]
        /\ batchCall.result.inner.reason = VerdictOf(FirstFailing).reason
        /\ Len(batchCall.result.checks) = FirstFailing
        /\ \A i \in 1..FirstFailing :
              batchCall.result.checks[i].url = batchCall.urls.items[i]

\* What holds of the loop: it checks the URLs in order and stops at the first
\* one that is not allowed; the result names that URL and its reason when its
\* check returned, and there is no result when its check raised.
FirstFailureStops ==
    FailingUrlCall =>
        /\ ~batchCall.result.ok
        /\ Len(batchCall.result.checks) = FirstFailing
        /\ \A i \in 1..FirstFailing :
              batchCall.result.checks[i].url = batchCall.urls.items[i]
        /\ batchCall.result.raised = VerdictOf(FirstFailing).raised
        /\ VerdictOf(FirstFailing).raised = "none" =>
              /\ batchCall.result.url = batchCall.urls.items[FirstFailing]
              /\ batchCall.result.inner.reason = VerdictOf(FirstFailing).reason

\* One check_url_safe call returned (it did not raise) and its reason is
\* empty exactly when it allows.
ReasonIffAllowed(v) == v.raised = "none" => (v.allowed <=> v.reason = "")

\* C23: on every return of check_url_safe and of validate_feed_urls the reason
\* is the empty string if and only if the verdict is allowed / ok.
C23_ReasonEmptyIffOk ==
    /\ batchCall.result.raised = "none" =>
          (batchCall.result.ok <=> batchCall.result.reason = "")
    /\ \A i \in 1..Len(batchCall.result.checks) :
          ReasonIffAllowed(batchCall.result.checks[i].verdict)

\* A list passed after one URL was allowed, and a list was turned down after a
\* URL was allowed and the next one rejected: both verdicts, both results.
C23_Witness ==
    /\ Len(batchCall.result.checks) = 2
    /\ batchCall.result.checks[1].verdict.allowed
    /\ batchCall.result.checks[1].verdict.reason = ""
    /\ ~batchCall.result.checks[2].verdict.allowed
    /\ batchCall.result.checks[2].verdict.raised = "none"
    /\ batchCall.result.checks[2].verdict.reason # ""
    /\ ~batchCall.result.ok
    /\ batchCall.result.reason # ""

\* A list of allowed URLs passes with the empty reason.
C23_WitnessOk ==
    /\ batchCall.result.ok
    /\ batchCall.result.reason = ""
    /\ Len(batchCall.result.checks) = 2

\* The same for every single check_url_safe call, whatever the URL's form.
ReasonEmptyIffAllowed == ReasonIffAllowed(urlCall.verdict)

\* ------------------------------------------------ claims on the HTTP routes
\* The handler body of /api/generate was entered: the request got past the
\* rate limiter and the gate of the route.
BodyReached ==
    /\ http.route = "generate"
    /\ \/ hpc \in {"body", "scrape"}
       \/ hpc = "done" /\ http.status \notin {401, 429}

\* C4: whenever the body of POST /api/generate runs, the first thing the
\* request did was to consume its CSRF token, and that consume returned True.
C4_ConsumedBeforeBody ==
    BodyReached =>
        /\ Len(events) >= 1
        /\ events[1].kind = "consume"
        /\ events[1].ok

\* The token a request presents is one _consume_csrf_token accepts.
TokenValid(tok) == tok \in DOMAIN token_store /\ ~(now > token_store[tok])

CheckCount == Cardinality({i \in 1..Len(events) : events[i].kind = "check_url"})

\* The days_back check and the check of every URL of the batch passed.
ShapeAndUrlsPassed ==
    /\ DaysBackOk(http.days)
    /\ http.feeds.isList
    /\ Len(http.feeds.items) \in 1..MAX_FEEDS
    /\ CheckCount = Len(http.feeds.items)
    /\ \A i \in 1..Len(events) : events[i].kind = "check_url" => events[i].ok

FetchArticlesCalls ==
    Cardinality({i \in 1..Len(events) : events[i].kind = "fetch_articles"})

\* C5: a finished /api/generate request called fetch_articles exactly once
\* when its token, its days_back and every one of its URLs passed, and not at
\* all otherwise.
C5_FetchOnceIffAllPass ==
    (http.route = "generate" /\ hpc = "done") =>
        FetchArticlesCalls =
            IF TokenValid(http.csrf) /\ ShapeAndUrlsPassed THEN 1 ELSE 0

\* The same with the token left out: fetch_articles is called once exactly
\* when days_back and every URL passed.
FetchOnceIffShapeAndUrlsPass ==
    (http.route = "generate" /\ hpc = "done") =>
        /\ FetchArticlesCalls = (IF ShapeAndUrlsPassed THEN 1 ELSE 0)
        /\ http.fetchCalls = FetchArticlesCalls

AllowedBefore(i) ==
    \E j \in 1..(i - 1) :
        /\ events[j].kind = "check_url"
        /\ events[j].url = events[i].url
        /\ events[j].ok

\* C6: every outbound fetch of a request goes to a URL that check_url_safe
\* allowed earlier in that request.
C6_FetchOnlyAllowed ==
    \A i \in 1..Len(events) : events[i].kind = "fetch" => AllowedBefore(i)

\* What does hold: the fetches of /api/validate, and the fetches of the feed
\* URLs themselves in /api/generate, go to allowed URLs.
ValidateFetchesAllowed == http.route = "validate" => C6_FetchOnlyAllowed

FeedFetchesAllowed ==
    \A i \in 1..Len(events) :
        (/\ events[i].kind = "fetch"
         /\ \E k \in 1..Len(http.feeds.items) : http.feeds.items[k] = events[i].url)
            => AllowedBefore(i)

\* The request got past the rate limiter and the gate and its handler ended.
Handled == hpc = "done" /\ http.status \notin {401, 429}

\* C16: when fetch_articles or the PDF step fails after validation passed, the
\* answer is a 500 that is the same whatever the exception said: the part of
\* the body that the handler fills in is empty.
C16_FailureBodyGeneric ==
    (/\ http.route = "generate"
     /\ Handled
     /\ FetchArticlesCalls >= 1
     /\ http.status = 500)
        => http.detail = ""

\* C17: a request whose body is longer than the limit is answered with 413
\* naming the limit in KB, and nothing of it is checked or fetched.
C17_OversizeAnswered413 ==
    (Handled /\ http.oversize) =>
        /\ http.status = 413
        /\ http.limitKB = MAX_BODY_KB
        /\ events = <<>>

\* What holds: no URL is checked and nothing is fetched for an oversize body,
\* and when the body is read the answer is the 413 with the limit.
OversizeNeverUsed ==
    (Handled /\ http.oversize) =>
        /\ \A i \in 1..Len(events) : events[i].kind \notin {"check_url", "fetch", "fetch_articles"}
        /\ http.json => (http.status = 413 /\ http.limitKB = MAX_BODY_KB)

\* days_back is an integer from 1 to 30, as the specification counts integers.
IntegerInRange(d) == d.kind = "int" /\ 1 <= d.val /\ d.val <= 30

\* The body of the /api/generate request was read and it gave a days_back.
DaysGiven ==
    /\ http.route = "generate"
    /\ hpc \in {"scrape", "done"}
    /\ http.status \notin {401, 429, 413}
    /\ http.json
    /\ http.days.kind # "absent"

\* C20: a request whose days_back is not an integer in [1, 30] is answered
\* with 400 and none of its URLs is checked, so validate_feed_urls and
\* fetch_articles did not run for it.
C20_BadDaysRejectedFirst ==
    (DaysGiven /\ ~IntegerInRange(http.days)) =>
        /\ http.status = 400
        /\ http.error = "'days_back' must be an integer between 1 and 30."
        /\ events = <<>>

\* What holds: a days_back that fails the test of line 173 ends the request
\* with 400 before any URL is checked, and a request that failed a step ran
\* none of the later steps.
FailedStepStops ==
    /\ (DaysGiven /\ ~DaysBackOk(http.days)) => (http.status = 400 /\ events = <<>>)
    /\ (http.route = "generate" /\ hpc = "done" /\ http.status \in {400, 401, 413, 429})
          => FetchArticlesCalls = 0
    /\ (http.route = "generate" /\ hpc = "done" /\ http.status \in {401, 413, 429})
          => events = <<>>

\* The last request was a /api/generate that has returned after creating its
\* temporary file.
TempFileMade ==
    /\ hpc = "done"
    /\ http.route = "generate"
    /\ \E i \in 1..Len(events) : events[i].kind = "NamedTemporaryFile"

\* C25: once /api/generate has returned, on every path that created the
\* temporary PDF file (the PDF was sent, build_pdf failed, send_file failed)
\* the file no longer exists.
C25_TempFileRemoved == TempFileMade => ~tmpFile

\* The file is gone whenever os.unlink did not raise, on all three paths.
TempFileRemovedByUnlink ==
    (TempFileMade /\ \E i \in 1..Len(events) : events[i].kind = "unlink" /\ events[i].ok)
        => ~tmpFile

\* A request that made no temporary file leaves none that was not there.
NoFileWithoutBuild ==
    [][(hpc' = "done" /\ ~TempFileMade') => tmpFile' = tmpFile]_vars

\* The PDF was sent with status 200 and its file stayed behind.
TempFileLeftAfterSend == TempFileMade /\ http.status = 200 /\ tmpFile

\* The last request was a /api/generate that presented an issued token, got
\* into the handler body and failed there: 400 from the days_back bound or
\* the URL validation, 500 from a downstream failure.
FailedWithToken ==
    /\ hpc = "done"
    /\ BodyReached
    /\ http.status \in {400, 500}
    /\ http.csrf \in DOMAIN issuedAt

\* The next request is that request again, with the same token and the same
\* credentials, and the rate limiter lets it through.
RetryArrives ==
    /\ FailedWithToken
    /\ http'.route = "generate"
    /\ http'.csrf = http.csrf
    /\ http'.keys = http.keys
    /\ http'.apiKey = http.apiKey
    /\ http'.limitedAt = "no"

TokenLeftAfterFailure == FailedWithToken /\ TokenValid(http.csrf)

\* The gate and the store on their own never put a token back: a consume
\* call adds no entry to the store, whatever the wrapped route does after it.
ConsumeNeverRestores ==
    [][last'.op = "consume" => DOMAIN token_store' \subseteq DOMAIN token_store]_vars

\* The checked URL names its host, the resolver answered check_url_safe with
\* public addresses only, and the URL was then fetched.
FetchedAfterPublicAnswer ==
    /\ conn.made
    /\ urlCall.url.hkind = "name"
    /\ urlCall.verdict.allowed
    /\ Answered
    /\ \A i \in 1..Len(urlCall.dns.addrs) : ~Blocked(urlCall.dns.addrs[i])

\* C21: DNS answers changing between validation and fetch.  For a hostname
\* that resolves only to public addresses when check_url_safe runs and to a
\* blocked address when the URL is fetched afterwards, no outbound connection
\* to the blocked address is made.
C21_NoConnectionToBlocked == FetchedAfterPublicAnswer => ~Blocked(conn.addr)

\* What the check does guarantee: a fetch happens only for a URL whose check
\* allowed it, all addresses of the check-time answer were outside the blocked
\* ranges, and a literal host is connected to as written.
FetchOnlyAfterPublicCheck ==
    conn.made =>
        /\ urlCall.verdict.allowed
        /\ \A i \in 1..Len(urlCall.dns.addrs) : ~is_private_ip(urlCall.dns.addrs[i])
        /\ urlCall.url.hkind = "ip" => conn.addr = urlCall.url.addr

\* feed.example answered 8.8.8.8 to the check and 169.254.169.254 to the fetch.
ReboundToMetadata ==
    /\ FetchedAfterPublicAnswer
    /\ urlCall.dns = DnsOk(<<Public4>>)
    /\ conn.addr = Metadata4

====
